---- MODULE Spec2Model ----
(***************************************************************************)
(* Model of the Image-to-Prompt Generator front end: the App component's   *)
(* state and handlers (handleImageChange, handleApiKeyChange,              *)
(* handleGeneratePrompts, handleCancel), the ImageUploader's events and    *)
(* the generatePromptsFromImage client with its two suspension points      *)
(* (fileToBase64, then ai.models.generateContent).                         *)
(*                                                                         *)
(* Execution is the browser's event loop: every handler, and every         *)
(* continuation of the async function between two awaits, is one atomic    *)
(* step.  A run of handleGeneratePrompts is a record holding the values    *)
(* its closure captured and its position in the loop.  imageDescription     *)
(* only reaches the instruction text sent to the model and is left out.    *)
(***************************************************************************)
EXTENDS Integers, Sequences, FiniteSets, TLC

\* ---- bounds of the model ----
MaxRuns == 2        \* runs of handleGeneratePrompts started in one behaviour
MaxCount == 10      \* largest slider value explored
Slack == 1          \* how far the model's answer may miss the requested count
MaxReaders == 1     \* preview FileReaders pending at once
MaxReplyLen == 2    \* longest prompts array of a response decoded on its own
MaxAnyCount == 12   \* largest promptCount handed to the loop directly

\* ---- program constants ----
BatchCap == 5       \* Math.ceil(promptCount / 5), Math.min(5, ...)
SliderMin == 5
SliderMax == 50
SliderStep == 5

Null == "null"
Files == {"f1"}
Keys == {"", "k"}

NoImageMsg == "Please upload an image first."
NoKeyMsg == "Please enter your Google Gemini API key."
GenericMsg == "Failed to generate prompts. Check your API key or try again later."

Min(a, b) == IF a < b THEN a ELSE b

\* values the range input can deliver
Counts == {c \in SliderMin..Min(SliderMax, MaxCount) : (c - SliderMin) % SliderStep = 0}

RunIds == 1..MaxRuns

\* Math.ceil(promptCount / 5)
TotalBatches(n) == (n + BatchCap - 1) \div BatchCap

\* the j-th prompt string of batch i of run r: every string the model
\* returns is a fresh one
NewPrompts(r, i, len) == [k \in 1..len |-> <<r, i, k>>]

NoLabel == [v |-> Null, run |-> 0, batch |-> 0]

VARIABLES
    imageFile,      \* useState<File | null>
    imageUrl,       \* useState<string | null>
    readers,        \* preview FileReaders whose onloadend has not fired yet
    apiKey,         \* useState<string>, initialised from localStorage
    storedKey,      \* localStorage['gemini-api-key']
    prompts,        \* useState<string[]>
    promptCount,    \* useState<number>
    identifiedStyle,
    identifiedSubject,
    isLoading,
    loadingStatus,  \* <<>> for '', <<x, n>> for `Generating x of n...`
    error,
    current,        \* generationAbortController.current: 0 for null, else the run owning it
    nRuns,          \* runs started so far
    runs,           \* the async invocations of handleGeneratePrompts
    lastOp,         \* "generate" when the last step was handleGeneratePrompts
    client          \* one call of the client taken alone: the response text it
                    \* decodes and how the call ended

vars == <<imageFile, imageUrl, readers, apiKey, storedKey, prompts, promptCount,
          identifiedStyle, identifiedSubject, isLoading, loadingStatus, error,
          current, nRuns, runs, lastOp, client>>

\* no response, nothing returned
NoReply ==
    [json |-> "none", subject |-> "missing", style |-> "missing",
     promptsKind |-> "missing", len |-> 0]

\* a run that has not been started
FreshRun ==
    [status |-> "unused",   \* unused | encode | request | done
     n |-> 0, file |-> Null, key |-> "",
     i |-> 0, acc |-> <<>>, aborted |-> FALSE,
     count |-> 0, hasExisting |-> FALSE, existing |-> <<>>,
     exit |-> "",           \* how the try block was left
     calls |-> 0,           \* invocations of generatePromptsFromImage
     netCalls |-> 0,        \* ai.models.generateContent requests sent
     batches |-> <<>>]      \* the newPrompts of each completed batch

Init ==
    /\ imageFile = Null
    /\ imageUrl = Null
    /\ readers = [f \in Files |-> 0]
    /\ storedKey \in Keys
    /\ apiKey = storedKey
    /\ prompts = <<>>
    /\ promptCount = 5
    /\ identifiedStyle = NoLabel
    /\ identifiedSubject = NoLabel
    /\ isLoading = FALSE
    /\ loadingStatus = <<>>
    /\ error = Null
    /\ current = 0
    /\ nRuns = 0
    /\ runs = [r \in RunIds |-> FreshRun]
    /\ lastOp = "init"
    /\ client = [reply |-> NoReply, outcome |-> "none", result |-> NoReply]

\* ---------------------------------------------------------------------
\* geminiService.ts: generatePromptsFromImage
\* ---------------------------------------------------------------------

\* what a field of the decoded response can be
FieldKinds == {"missing", "empty", "str"}

\* lengths the prompts array of an answer to a request for c prompts can have
RespLens(c) == {l \in (c - Slack)..(c + Slack) : l >= 0}

\* response.text of the external model, as far as the client looks at it:
\* text that JSON.parse rejects, or an object whose three fields are each
\* missing, falsy, or of some type
Responses(c) ==
    [json : {"object"}, subject : FieldKinds, style : FieldKinds,
     promptsKind : {"array"}, len : RespLens(c)]
    \cup
    [json : {"object"}, subject : FieldKinds, style : FieldKinds,
     promptsKind : {"missing", "notArray"}, len : {0}]
    \cup
    [json : {"invalid"}, subject : {"missing"}, style : {"missing"},
     promptsKind : {"missing"}, len : {0}]

\* a JavaScript value is truthy: a missing field (undefined) and '' are not
Truthy(kind) == kind \notin {"missing", "empty"}

\* the test of line 173: jsonResponse.prompts && Array.isArray(jsonResponse.prompts)
\*   && jsonResponse.identifiedStyle && jsonResponse.identifiedSubject
ValidStructure(resp) ==
    /\ resp.json = "object"
    /\ resp.promptsKind = "array"
    /\ Truthy(resp.style)
    /\ Truthy(resp.subject)

\* names of the errors a rejected call can carry: fileToBase64 rejects with
\* the reader's event (no name), the SDK and the parse path with an Error,
\* the transport possibly with an AbortError
ErrorNames == {"Error", "AbortError"}

\* ---------------------------------------------------------------------
\* App: handleGeneratePrompts
\* ---------------------------------------------------------------------

\* the try block is left: which way
Leave(rec, how) == [rec EXCEPT !.status = "done", !.exit = how]

\* the exclusion list handed over on every batch, the first included
HasExistingAlways(rec) == TRUE

\* const existingPrompts = i === 0 ? undefined : accumulatedPrompts
HasExisting(rec) == rec.i # 0

\* a full batch asked for every time
AlwaysFullBatch(rec) == BatchCap

\* Math.min(5, promptCount - accumulatedPrompts.length)
PromptsToGenerate(rec) == Min(BatchCap, rec.n - Len(rec.acc))

\* a loop that never looks at the signal
SignalNeverRead(rec) == FALSE

\* the loop reads signal.aborted at the top of every iteration
SignalAborted(rec) == rec.aborted

\* the call of line 81 up to its first await: the key check of the client,
\* then fileToBase64 is pending
IssueCall(rec, c) ==
    IF rec.key = ""
    THEN Leave([rec EXCEPT !.calls = @ + 1, !.count = c,
                           !.hasExisting = HasExisting(rec),
                           !.existing = IF HasExisting(rec) THEN rec.acc ELSE <<>>],
               "catch_error")
    ELSE [rec EXCEPT !.status = "encode", !.calls = @ + 1, !.count = c,
                     !.hasExisting = HasExisting(rec),
                     !.existing = IF HasExisting(rec) THEN rec.acc ELSE <<>>]

\* one pass from the loop header (line 69) to the await of line 81, or out
LoopHead(rec) ==
    IF ~(rec.i < TotalBatches(rec.n)) THEN Leave(rec, "loop_end")
    ELSE IF SignalAborted(rec) THEN Leave(rec, "break_aborted")
    ELSE IF PromptsToGenerate(rec) <= 0 THEN Leave(rec, "break_full")
    ELSE IssueCall(rec, PromptsToGenerate(rec))

\* lines 83-89 for the awaited result, as far as the run's own variables go
Accumulate(rec, new) ==
    [rec EXCEPT !.acc = rec.acc \o new, !.batches = Append(@, new), !.i = @ + 1]

\* a catch that swallows every error
CaughtSilently(name, err) == err

\* catch (lines 91-95): the message, if one is set
Caught(name, err) == IF name # "AbortError" THEN GenericMsg ELSE err

\* finally (lines 96-99), once the function has left the try block; until
\* then line 78 has set the progress text
Settle(rec, loading) ==
    /\ isLoading' = IF rec.status = "done" THEN FALSE ELSE loading
    /\ loadingStatus' = IF rec.status = "done" THEN <<>>
                        ELSE <<Len(rec.acc) + rec.count, rec.n>>

\* the validation with the key check forgotten
InputErrorImageOnly ==
    IF imageFile = Null THEN NoImageMsg ELSE Null

\* the two guards of lines 47-54: the message of the first that fires
InputError ==
    IF imageFile = Null THEN NoImageMsg
    ELSE IF apiKey = "" THEN NoKeyMsg
    ELSE Null

\* handleGeneratePrompts, from its invocation to its first await
HandleGeneratePrompts ==
    /\ IF InputError # Null
       THEN /\ error' = InputError
            /\ lastOp' = "generate"
            /\ UNCHANGED <<prompts, identifiedStyle, identifiedSubject, isLoading,
                           loadingStatus, current, nRuns, runs>>
       ELSE /\ nRuns < MaxRuns
            /\ LET r == nRuns + 1
                   rec == LoopHead([FreshRun EXCEPT !.n = promptCount,
                                                    !.file = imageFile,
                                                    !.key = apiKey])
               IN  /\ nRuns' = r
                   /\ current' = r
                   /\ runs' = [runs EXCEPT ![r] = rec]
                   /\ Settle(rec, TRUE)
                   /\ error' = IF rec.exit = "catch_error" THEN GenericMsg ELSE Null
                   /\ prompts' = <<>>
                   /\ identifiedStyle' = NoLabel
                   /\ identifiedSubject' = NoLabel
                   /\ lastOp' = "generate"
    /\ UNCHANGED <<imageFile, imageUrl, readers, apiKey, storedKey, promptCount,
                   client>>

\* a click on "Generate Prompts": the button is rendered only while isLoading
\* is false (line 197) and is disabled without an image or a key (line 207)
ClickGenerate ==
    /\ ~isLoading
    /\ imageFile # Null
    /\ apiKey # ""
    /\ HandleGeneratePrompts

\* handleGeneratePrompts reached with an input missing, its own validation
\* (lines 47-54) being what stands between the invocation and a run
InvokeWithMissingInput ==
    /\ (imageFile = Null \/ apiKey = "")
    /\ HandleGeneratePrompts

\* fileToBase64 resolved: the client sends the request (line 142)
Encoded(r) ==
    /\ runs[r].status = "encode"
    /\ runs' = [runs EXCEPT ![r].status = "request", ![r].netCalls = @ + 1]
    /\ lastOp' = "other"
    /\ UNCHANGED <<imageFile, imageUrl, readers, apiKey, storedKey, prompts,
                   promptCount, identifiedStyle, identifiedSubject, isLoading,
                   loadingStatus, error, current, nRuns, client>>

\* the awaited call rejected: catch and finally
Fail(r, name) ==
    LET rec == Leave(runs[r], IF name = "AbortError" THEN "catch_abort"
                                                     ELSE "catch_error")
    IN  /\ runs' = [runs EXCEPT ![r] = rec]
        /\ error' = Caught(name, error)
        /\ Settle(rec, isLoading)
        /\ lastOp' = "other"
        /\ UNCHANGED <<imageFile, imageUrl, readers, apiKey, storedKey, prompts,
                       promptCount, identifiedStyle, identifiedSubject, current,
                       nRuns, client>>

\* labels taken from every batch
AnyBatch(rec) == TRUE

\* if (i === 0), line 83
FirstBatch(rec) == rec.i = 0

\* the awaited call resolved: lines 83-89, then the loop goes on to the next
\* await or out
Succeed(r, resp) ==
    LET new == NewPrompts(r, runs[r].i, resp.len)
        rec == LoopHead(Accumulate(runs[r], new))
    IN  /\ runs' = [runs EXCEPT ![r] = rec]
        /\ identifiedStyle' =
              IF FirstBatch(runs[r])
              THEN [v |-> resp.style, run |-> r, batch |-> runs[r].i]
              ELSE identifiedStyle
        /\ identifiedSubject' =
              IF FirstBatch(runs[r])
              THEN [v |-> resp.subject, run |-> r, batch |-> runs[r].i]
              ELSE identifiedSubject
        /\ prompts' = prompts \o new
        /\ error' = IF rec.exit = "catch_error" THEN GenericMsg ELSE error
        /\ Settle(rec, isLoading)
        /\ lastOp' = "other"
        /\ UNCHANGED <<imageFile, imageUrl, readers, apiKey, storedKey,
                       promptCount, current, nRuns, client>>

\* reader.onerror inside fileToBase64: the promise rejects with the event
EncodeFailed(r) ==
    /\ runs[r].status = "encode"
    /\ Fail(r, "undefined")

\* ai.models.generateContent rejected
RequestFailed(r) ==
    /\ runs[r].status = "request"
    /\ \E name \in ErrorNames : Fail(r, name)

\* ai.models.generateContent resolved: lines 171-181, then the caller
Responded(r) ==
    /\ runs[r].status = "request"
    /\ \/ \E resp \in Responses(runs[r].count) :
             ValidStructure(resp) /\ Succeed(r, resp)
       \/ /\ \E resp \in Responses(runs[r].count) : ~ValidStructure(resp)
          /\ Fail(r, "Error")

\* handleCancel; its button is rendered only while isLoading is true
HandleCancel ==
    /\ isLoading
    /\ runs' = IF current = 0 THEN runs
               ELSE [runs EXCEPT ![current].aborted = TRUE]
    /\ isLoading' = FALSE
    /\ loadingStatus' = <<>>
    /\ lastOp' = "other"
    /\ UNCHANGED <<imageFile, imageUrl, readers, apiKey, storedKey, prompts,
                   promptCount, identifiedStyle, identifiedSubject, error, current,
                   nRuns, client>>

\* ---------------------------------------------------------------------
\* App: the other handlers; ImageUploader
\* ---------------------------------------------------------------------

\* handleImageChange(file)
HandleImageChange(file) ==
    /\ imageFile' = file
    /\ prompts' = <<>>
    /\ identifiedStyle' = NoLabel
    /\ identifiedSubject' = NoLabel
    /\ error' = Null
    /\ IF file # Null
       THEN readers' = [readers EXCEPT ![file] = @ + 1] /\ UNCHANGED imageUrl
       ELSE imageUrl' = Null /\ UNCHANGED readers
    /\ lastOp' = "other"
    /\ UNCHANGED <<apiKey, storedKey, promptCount, isLoading, loadingStatus,
                   current, nRuns, runs, client>>

\* handleFileChange / handleDrop: the input and the drop zone are disabled
\* while isLoading
SelectImage ==
    /\ ~isLoading
    /\ \E f \in Files : readers[f] < MaxReaders /\ HandleImageChange(f)

\* handleClearImage: its button exists only over a preview, and is disabled
\* while isLoading
ClearImage ==
    /\ ~isLoading
    /\ imageUrl # Null
    /\ HandleImageChange(Null)

\* reader.onloadend of handleImageChange
PreviewLoaded ==
    \E f \in Files :
        /\ readers[f] > 0
        /\ readers' = [readers EXCEPT ![f] = @ - 1]
        /\ imageUrl' = f
        /\ lastOp' = "other"
        /\ UNCHANGED <<imageFile, apiKey, storedKey, prompts, promptCount,
                       identifiedStyle, identifiedSubject, isLoading, loadingStatus,
                       error, current, nRuns, runs, client>>

\* handleApiKeyChange; the input is disabled while isLoading
HandleApiKeyChange ==
    /\ ~isLoading
    /\ \E k \in Keys :
          /\ apiKey' = k
          /\ storedKey' = k
    /\ lastOp' = "other"
    /\ UNCHANGED <<imageFile, imageUrl, readers, prompts, promptCount,
                   identifiedStyle, identifiedSubject, isLoading, loadingStatus,
                   error, current, nRuns, runs, client>>

\* onChange of the range input; disabled while isLoading
SetPromptCount ==
    /\ ~isLoading
    /\ \E c \in Counts : promptCount' = c
    /\ lastOp' = "other"
    /\ UNCHANGED <<imageFile, imageUrl, readers, apiKey, storedKey, prompts,
                   identifiedStyle, identifiedSubject, isLoading, loadingStatus,
                   error, current, nRuns, runs, client>>

Next ==
    \/ ClickGenerate
    \/ HandleCancel
    \/ SelectImage
    \/ ClearImage
    \/ PreviewLoaded
    \/ HandleApiKeyChange
    \/ SetPromptCount
    \/ \E r \in RunIds : Encoded(r)
    \/ \E r \in RunIds : EncodeFailed(r)
    \/ \E r \in RunIds : RequestFailed(r)
    \/ \E r \in RunIds : Responded(r)

Spec == Init /\ [][Next]_vars

\* the same program with the handler's validation exercised
NextHandler ==
    \/ Next
    \/ InvokeWithMissingInput

SpecHandler == Init /\ [][NextHandler]_vars

\* ---------------------------------------------------------------------
\* generatePromptsFromImage on its own: lines 171-181 applied to a response
\* ---------------------------------------------------------------------

\* what a field of any decoded response can be: absent, '', a non-empty
\* string, or a truthy value that is no string
ReplyFieldKinds == FieldKinds \cup {"num"}

\* response.text: text JSON.parse rejects, the text null, a scalar, or an
\* object
Replies ==
    [json : {"object"}, subject : ReplyFieldKinds, style : ReplyFieldKinds,
     promptsKind : {"array"}, len : 0..MaxReplyLen]
    \cup
    [json : {"object"}, subject : ReplyFieldKinds, style : ReplyFieldKinds,
     promptsKind : {"missing", "notArray"}, len : {0}]
    \cup
    [json : {"invalid", "null", "scalar"}, subject : {"missing"},
     style : {"missing"}, promptsKind : {"missing"}, len : {0}]

InitClient ==
    /\ imageFile = Null
    /\ imageUrl = Null
    /\ readers = [f \in Files |-> 0]
    /\ storedKey \in Keys
    /\ apiKey = storedKey
    /\ prompts = <<>>
    /\ promptCount = 5
    /\ identifiedStyle = NoLabel
    /\ identifiedSubject = NoLabel
    /\ isLoading = FALSE
    /\ loadingStatus = <<>>
    /\ error = Null
    /\ current = 0
    /\ nRuns = 0
    /\ runs = [r \in RunIds |-> FreshRun]
    /\ lastOp = "init"
    /\ \E x \in Replies :
          client = [reply |-> x, outcome |-> "pending", result |-> NoReply]

\* the try block of lines 171-181: return jsonResponse as it is, or throw
ParseResponse ==
    /\ client.outcome = "pending"
    /\ client' = IF ValidStructure(client.reply)
                 THEN [client EXCEPT !.outcome = "returned", !.result = client.reply]
                 ELSE [client EXCEPT !.outcome = "threw"]
    /\ UNCHANGED <<imageFile, imageUrl, readers, apiKey, storedKey, prompts,
                   promptCount, identifiedStyle, identifiedSubject, isLoading,
                   loadingStatus, error, current, nRuns, runs, lastOp>>

SpecClient == InitClient /\ [][ParseResponse]_vars

\* ---------------------------------------------------------------------
\* handleGeneratePrompts for any promptCount, every call coming back
\* ---------------------------------------------------------------------

\* promptCount is a number state: the loop takes whatever it holds
AnyCounts == 1..MaxAnyCount

InitAnyCount ==
    /\ imageFile \in Files
    /\ imageUrl = imageFile
    /\ readers = [f \in Files |-> 0]
    /\ storedKey = "k"
    /\ apiKey = storedKey
    /\ prompts = <<>>
    /\ promptCount \in AnyCounts
    /\ identifiedStyle = NoLabel
    /\ identifiedSubject = NoLabel
    /\ isLoading = FALSE
    /\ loadingStatus = <<>>
    /\ error = Null
    /\ current = 0
    /\ nRuns = 0
    /\ runs = [r \in RunIds |-> FreshRun]
    /\ lastOp = "init"
    /\ client = [reply |-> NoReply, outcome |-> "none", result |-> NoReply]

\* the pending promise of run r settles: one of the steps of its call
CallStep(r) ==
    \/ Encoded(r)
    \/ EncodeFailed(r)
    \/ RequestFailed(r)
    \/ Responded(r)

NextAnyCount ==
    \/ ClickGenerate
    \/ HandleCancel
    \/ \E r \in RunIds : CallStep(r)

\* every call eventually returns or fails
SpecAnyCount ==
    /\ InitAnyCount
    /\ [][NextAnyCount]_vars
    /\ \A r \in RunIds : WF_vars(CallStep(r))

\* ---------------------------------------------------------------------
\* Properties
\* ---------------------------------------------------------------------

InFlight(r) == runs[r].status \in {"encode", "request"}
Started(r) == runs[r].status # "unused"

\* the concatenation of a sequence of sequences
RECURSIVE Flatten(_)
Flatten(ss) == IF ss = <<>> THEN <<>> ELSE Head(ss) \o Flatten(Tail(ss))

\* every completed batch of the run brought exactly the number of prompts
\* that was asked for
ExactAnswers(rec) ==
    \A j \in 1..Len(rec.batches) :
        Len(rec.batches[j]) = Min(BatchCap, rec.n - BatchCap * (j - 1))

\* the run left its loop without a cancellation and without an exception
EndedNormally(rec) ==
    /\ rec.status = "done"
    /\ rec.exit \in {"loop_end", "break_full"}
    /\ ~rec.aborted

\* C1: a run that is neither cancelled nor failed has issued exactly
\* ceil(N/5) calls of generatePromptsFromImage and has accumulated exactly N
\* prompts.
C1_CallsAndLength ==
    \A r \in RunIds :
        EndedNormally(runs[r]) =>
            /\ runs[r].calls = TotalBatches(runs[r].n)
            /\ Len(runs[r].acc) = runs[r].n

\* C2: the displayed prompt list is never longer than the target count of
\* the current run.  Stated here for the states in which every answer so far
\* had the requested length, so that a violation does not rest on an answer
\* of the wrong size.
C2_DisplayedWithinTarget ==
    (current # 0 /\ \A r \in RunIds : ExactAnswers(runs[r]))
        => Len(prompts) <= runs[current].n

\* C3: at most one call of generatePromptsFromImage is in flight.
C3_OneCallInFlight ==
    Cardinality({r \in RunIds : InFlight(r)}) <= 1

\* C4: the call in flight for batch i > 0 of a run was given, as its
\* exclusion list, the prompts of that run's batches 0..i-1 in order; the
\* call for batch 0 was given none.
C4_ExclusionList ==
    \A r \in RunIds :
        InFlight(r) =>
            /\ Len(runs[r].batches) = runs[r].i
            /\ IF runs[r].i = 0
               THEN ~runs[r].hasExisting
               ELSE /\ runs[r].hasExisting
                    /\ runs[r].existing = Flatten(runs[r].batches)

C4_Witness ==
    \E r \in RunIds :
        /\ InFlight(r)
        /\ runs[r].i = 1
        /\ runs[r].hasExisting
        /\ Len(runs[r].existing) = BatchCap

\* C5: once a run's signal is aborted the run invokes
\* generatePromptsFromImage no more.
C5_NoCallAfterCancel ==
    [][\A r \in RunIds : runs[r].aborted => runs'[r].calls = runs[r].calls]_vars

\* a run cancelled during its first batch, whose call then succeeded, has
\* left the loop at the abort check with batches still to do
C5_Witness ==
    \E r \in RunIds :
        /\ runs[r].aborted
        /\ runs[r].exit = "break_aborted"
        /\ runs[r].calls = 1
        /\ runs[r].i < TotalBatches(runs[r].n)

C8_FailureAbortsRun ==
    [][\A r \in RunIds :
          /\ (runs[r].exit = "" /\ runs'[r].exit = "catch_error") =>
                /\ runs'[r].status = "done"
                /\ runs'[r].calls = runs[r].calls
                /\ runs'[r].acc = runs[r].acc
                /\ prompts' = prompts
                /\ error' = GenericMsg
          /\ runs[r].status = "done" =>
                /\ runs'[r].status = "done"
                /\ runs'[r].calls = runs[r].calls
                /\ runs'[r].netCalls = runs[r].netCalls]_vars

\* the second batch of a run failed: the first batch's prompts are on
\* display under the generic message
C8_Witness ==
    \E r \in RunIds :
        /\ runs[r].exit = "catch_error"
        /\ runs[r].calls = 2
        /\ Len(runs[r].acc) > 0
        /\ prompts = runs[r].acc
        /\ error = GenericMsg

\* C9: the completion of the in-flight call of a cancelled run, whatever
\* its outcome, leaves the error message as it was.
C9_CancelledRunSilent ==
    [][\A r \in RunIds :
          (runs[r].aborted /\ InFlight(r) /\ runs'[r].status = "done")
              => error' = error]_vars

\* C10: handleGeneratePrompts invoked without an image or with an empty key
\* starts no run and issues no call, sets the message of the missing input,
\* and leaves prompts, subject, style and the loading flag as they were.
C10_MissingInputBlocksRun ==
    [][(lastOp' = "generate" /\ (imageFile = Null \/ apiKey = "")) =>
          /\ nRuns' = nRuns
          /\ runs' = runs
          /\ error' = (IF imageFile = Null THEN NoImageMsg ELSE NoKeyMsg)
          /\ UNCHANGED <<prompts, identifiedStyle, identifiedSubject, isLoading>>]_vars

\* the handler refused to start for want of a key while the prompts of an
\* earlier run were on display
C10_Witness ==
    /\ lastOp = "generate"
    /\ error = NoKeyMsg
    /\ Len(prompts) > 0
    /\ identifiedStyle # NoLabel

\* a label the presentation shows: neither null nor a falsy value
IsSet(label) == label.v \notin {Null, "missing", "empty"}

\* run r completes a batch in this step
Completes(r) == Len(runs'[r].batches) > Len(runs[r].batches)

\* C11: subject and style are set together or not at all, always from the
\* result of a batch 0; the step in which a run completes its batch 0 sets
\* both from that result, the completion of a later batch leaves them alone,
\* and nothing else sets them.
C11_LabelsFromFirstBatch ==
    /\ [](/\ IsSet(identifiedSubject) <=> IsSet(identifiedStyle)
          /\ IsSet(identifiedStyle) =>
                /\ identifiedStyle.batch = 0
                /\ identifiedSubject.batch = 0
                /\ identifiedSubject.run = identifiedStyle.run)
    /\ [][/\ \A r \in RunIds :
                Completes(r) =>
                    IF runs[r].i = 0
                    THEN /\ IsSet(identifiedStyle') /\ identifiedStyle'.run = r
                         /\ IsSet(identifiedSubject') /\ identifiedSubject'.run = r
                    ELSE UNCHANGED <<identifiedStyle, identifiedSubject>>
          /\ (/\ <<identifiedStyle, identifiedSubject>>' #
                     <<identifiedStyle, identifiedSubject>>
              /\ IsSet(identifiedStyle')) =>
                \E r \in RunIds : Completes(r) /\ runs[r].i = 0]_vars

\* a run has completed two batches and the labels on display are those of
\* its batch 0
C11_Witness ==
    \E r \in RunIds :
        /\ runs[r].i = 2
        /\ IsSet(identifiedStyle)
        /\ IsSet(identifiedSubject)
        /\ identifiedStyle.run = r

\* C13: every batch whose prompts were appended to a run's accumulated list
\* brought exactly the number of prompts requested for it.
C13_OnlyExactAnswersAppended ==
    \A r \in RunIds : ExactAnswers(runs[r])

\* C14: the step in which a run completes a batch leaves the displayed
\* prompts equal to that run's accumulatedPrompts.
C14_DisplayedEqualsAccumulated ==
    [][\A r \in RunIds : Completes(r) => prompts' = runs'[r].acc]_vars

\* C16: while no image is selected the displayed list is empty and subject
\* and style are unset.
C16_NoImageNoResults ==
    imageFile = Null =>
        /\ prompts = <<>>
        /\ identifiedStyle = NoLabel
        /\ identifiedSubject = NoLabel

\* C17: while a run that was not cancelled has a call in flight, isLoading
\* is true.
C17_LoadingWhileInFlight ==
    \A r \in RunIds : (InFlight(r) /\ ~runs[r].aborted) => isLoading

\* C12: the client returns a result exactly when the decoded response has a
\* string identifiedSubject, a string identifiedStyle and an array prompts;
\* otherwise it throws and hands nothing back.
C12_ReturnsIffWellTyped ==
    client.outcome \in {"returned", "threw"} =>
        /\ client.outcome = "returned" <=>
              /\ client.reply.json = "object"
              /\ client.reply.subject \in {"empty", "str"}
              /\ client.reply.style \in {"empty", "str"}
              /\ client.reply.promptsKind = "array"
        /\ client.outcome = "threw" => client.result = NoReply

\* C15: for any promptCount a started run has made at most ceil(N/5) calls,
\* each call in flight asks for at least 1 and at most min(5, N minus what is
\* accumulated) prompts, the run eventually is over, and the step that ends
\* it leaves the loading flag false.
C15_TerminatesWithinBatches ==
    /\ [](\A r \in RunIds :
            /\ runs[r].calls <= TotalBatches(runs[r].n)
            /\ InFlight(r) =>
                  /\ runs[r].count >= 1
                  /\ runs[r].count <= Min(BatchCap, runs[r].n - Len(runs[r].acc)))
    /\ [][\A r \in RunIds :
            (InFlight(r) /\ runs'[r].status = "done") => ~isLoading']_vars
    /\ \A r \in RunIds : InFlight(r) ~> (runs[r].status = "done")

\* a run for 7 prompts is over after two calls, of 5 and of 2
C15_Witness ==
    \E r \in RunIds :
        /\ runs[r].status = "done"
        /\ runs[r].n = 7
        /\ runs[r].calls = 2
        /\ Len(runs[r].batches) = 2
        /\ Len(runs[r].batches[1]) = 5
        /\ Len(runs[r].batches[2]) = 2
        /\ ~isLoading

====
